---- MODULE Spec2Model ----
(***************************************************************************)
(* Court-decision scraper: search, per-document resolve and download, and  *)
(* the metadata ledger.  Three implementations live in the repository and  *)
(* are modelled side by side; `impl` says which one a run executes:        *)
(*   "scraper"  src/scraper.py                (scrape_decisions)           *)
(*   "utils"    src/utils.py                  (process_documents)          *)
(*   "scripts"  src/scripts/prepare_search.py and process_download.py      *)
(*              (search_documents, process_documents, save_metadata)       *)
(* Text is a sequence of one-character strings, so that sanitizing and     *)
(* formatting are computed character by character.                         *)
(***************************************************************************)
EXTENDS Integers, Sequences, FiniteSets, TLC

VARIABLES
    impl,           \* which implementation runs
    pc,             \* position of the run
    documents,      \* the raw records (or result items) the search returned
    idx,            \* 1-based position of the next raw record in the loop
    sequential,     \* the sequence counter of utils.py / scraper.py
    document_list,  \* the ledger: processed_docs / document_list
    attempts,       \* history: raw position of every download GET, and whether it went well
    files,          \* destination paths that exist on disk
    metadata,       \* metadata.json: <<>> when not written, else <<content>>
    download_log,   \* download_log.txt: <<>> when not written, else <<lines>>
    tally,          \* save_metadata's locals once computed (lines 139-140)
    search_outcome, \* what the search call met
    exc,            \* the exception that reached the caller ("" when none)
    arg,            \* argument of the function under test (pure-function runs)
    ret,            \* its results, one per application
    raised          \* whether the function under test raised

vars == <<impl, pc, documents, idx, sequential, document_list, attempts, files,
          metadata, download_log, tally, search_outcome, exc, arg, ret, raised>>

pipeline_vars == <<pc, documents, idx, sequential, document_list, attempts,
                   files, metadata, download_log, tally, search_outcome, exc>>

fn_vars == <<arg, ret, raised>>

----------------------------------------------------------------------------
(* Bounds *)

MaxDocs == 3        \* raw records in one search result
MaxLen == 3         \* characters of a string handed to sanitize_filename
MaxApply == 2       \* successive applications of sanitize_filename
MaxDateSteps == 10  \* sampled timestamps, DayStep days apart
DayStep == 1999     \* days between two sampled timestamps

----------------------------------------------------------------------------
(* Text: characters, str(), zero padding *)

None == <<"<None>">>     \* Python's None where a string is expected

Digits == <<"0", "1", "2", "3", "4", "5", "6", "7", "8", "9">>

DigitChars == {Digits[i] : i \in 1..10}

DigitVal(c) == (CHOOSE i \in 1..10 : Digits[i] = c) - 1

RECURSIVE Str(_)
Str(n) ==
    IF n < 10 THEN <<Digits[n + 1]>>
    ELSE Str(n \div 10) \o <<Digits[(n % 10) + 1]>>

RECURSIVE ZeroPad(_, _)
ZeroPad(s, width) ==
    IF Len(s) >= width THEN s ELSE ZeroPad(<<"0">> \o s, width)

RECURSIVE ToInt(_)
ToInt(ds) ==
    IF ds = <<>> THEN 0
    ELSE 10 * ToInt(SubSeq(ds, 1, Len(ds) - 1)) + DigitVal(ds[Len(ds)])

LowerLetters == {"a", "c", "d", "e", "f", "i", "o", "p", "s", "t", "x"}

\* Upper-case letters with a one-character lower case.
UpperLetters == {"A", "C", "D"}

\* U+0130 (capital I with dot above) is a letter whose lower() is two
\* characters, "i" and the combining dot U+0307, which is a mark, not a word
\* character.  U+1D400 (mathematical bold capital A) is an upper-case letter
\* that lower() leaves as it is.
WordChars ==
    LowerLetters \cup UpperLetters \cup DigitChars \cup {"_", "U+0130", "U+1D400"}

SpaceChars == {" ", "\t"}

IsWord(c) == c \in WordChars

IsSpace(c) == c \in SpaceChars

IsUpper(c) == c \in UpperLetters \cup {"U+0130", "U+1D400"}

\* str.lower() of one character.
LowerChar(c) ==
    CASE c = "A" -> <<"a">>
      [] c = "C" -> <<"c">>
      [] c = "D" -> <<"d">>
      [] c = "U+0130" -> <<"i", "U+0307">>
      [] OTHER -> <<c>>

RECURSIVE Lower(_)
Lower(s) == IF s = <<>> THEN <<>> ELSE LowerChar(Head(s)) \o Lower(Tail(s))

\* re.sub(r"[^\w\s-]", "", s)
RECURSIVE StripSpecial(_)
StripSpecial(s) ==
    IF s = <<>> THEN <<>>
    ELSE IF IsWord(Head(s)) \/ IsSpace(Head(s)) \/ Head(s) = "-"
         THEN <<Head(s)>> \o StripSpecial(Tail(s))
         ELSE StripSpecial(Tail(s))

\* re.sub(r"\s+", "_", s): every maximal run of whitespace becomes one "_".
RECURSIVE CollapseSpace(_)
CollapseSpace(s) ==
    IF s = <<>> THEN <<>>
    ELSE IF IsSpace(Head(s))
         THEN IF Len(s) > 1 /\ IsSpace(s[2])
              THEN CollapseSpace(Tail(s))
              ELSE <<"_">> \o CollapseSpace(Tail(s))
         ELSE <<Head(s)>> \o CollapseSpace(Tail(s))

sanitize_filename(s) == Lower(CollapseSpace(StripSpecial(s)))

----------------------------------------------------------------------------
(* parse_ms_date: /Date(<epoch milliseconds>)/ to YYYY-MM-DD *)

DatePrefix == <<"/", "D", "a", "t", "e", "(">>

\* End of the run of digits that starts at position p (p - 1 when none).
RECURSIVE DigitRunEnd(_, _)
DigitRunEnd(s, p) ==
    IF p <= Len(s) /\ s[p] \in DigitChars THEN DigitRunEnd(s, p + 1) ELSE p - 1

\* Whether r"/Date\((\d+)\)/" matches s at position p.
MatchesAt(s, p) ==
    LET q == DigitRunEnd(s, p + 6)
    IN  /\ p + 5 <= Len(s)
        /\ SubSeq(s, p, p + 5) = DatePrefix
        /\ q >= p + 6
        /\ q + 2 <= Len(s)
        /\ s[q + 1] = ")"
        /\ s[q + 2] = "/"

\* re.search: the leftmost match, as <<>> (no match) or <<group(1)>>.
ReSearchDate(s) ==
    LET hits == {p \in 1..Len(s) : MatchesAt(s, p)}
    IN  IF hits = {} THEN <<>>
        ELSE LET p == CHOOSE h \in hits : \A g \in hits : h <= g
             IN  <<SubSeq(s, p + 6, DigitRunEnd(s, p + 6))>>

\* int(group(1)) / 1000, whole seconds: the last three digits are the
\* milliseconds.
SecondsOf(ds) == IF Len(ds) <= 3 THEN 0 ELSE ToInt(SubSeq(ds, 1, Len(ds) - 3))

IsLeap(y) == (y % 4 = 0 /\ y % 100 # 0) \/ y % 400 = 0

DaysInYear(y) == IF IsLeap(y) THEN 366 ELSE 365

DaysInMonth(y, m) ==
    IF m = 2 THEN (IF IsLeap(y) THEN 29 ELSE 28)
    ELSE IF m \in {4, 6, 9, 11} THEN 30 ELSE 31

\* datetime.utcfromtimestamp: the calendar day, counting days from
\* 1970-01-01, a year and then a month at a time.
RECURSIVE YearOfDay(_, _)
YearOfDay(days, y) ==
    IF days < DaysInYear(y) THEN <<y, days>>
    ELSE YearOfDay(days - DaysInYear(y), y + 1)

RECURSIVE MonthOfDay(_, _, _)
MonthOfDay(days, y, m) ==
    IF days < DaysInMonth(y, m) THEN <<m, days + 1>>
    ELSE MonthOfDay(days - DaysInMonth(y, m), y, m + 1)

utcfromtimestamp(secs) ==
    LET yd == YearOfDay(secs \div 86400, 1970)
        md == MonthOfDay(yd[2], yd[1], 1)
    IN  [year |-> yd[1], month |-> md[1], day |-> md[2]]

\* strftime("%Y-%m-%d")
strftime(d) ==
    ZeroPad(Str(d.year), 4) \o <<"-">> \o ZeroPad(Str(d.month), 2)
        \o <<"-">> \o ZeroPad(Str(d.day), 2)

\* Whether the name `datetime` is the class (from datetime import datetime)
\* or the module (import datetime), which has no utcfromtimestamp and no now.
DatetimeIsClass(im) == im # "scripts"

\* Whether parse_ms_date raises: with datetime the module, the call of
\* datetime.utcfromtimestamp is an AttributeError, reached by every marker
\* that holds the pattern.
ParseMsDateRaises(im, ms_date) ==
    /\ ~DatetimeIsClass(im)
    /\ ms_date # None
    /\ ms_date # <<>>
    /\ ReSearchDate(ms_date) # <<>>

\* [raised, value]: the string returned, or raised = TRUE.
parse_ms_date(im, ms_date) ==
    IF ms_date = None \/ ms_date = <<>> THEN [raised |-> FALSE, value |-> <<>>]
    ELSE LET match == ReSearchDate(ms_date)
         IN  IF match = <<>> THEN [raised |-> FALSE, value |-> <<>>]
             ELSE IF ParseMsDateRaises(im, ms_date)
             THEN [raised |-> TRUE, value |-> <<>>]
             ELSE [raised |-> FALSE,
                   value |-> strftime(utcfromtimestamp(SecondsOf(match[1])))]

----------------------------------------------------------------------------
(* Raw records, type codes, URLs, the downloader *)

\* dict.get(key, default)
Get(doc, key, default) == IF key \in DOMAIN doc THEN doc[key] ELSE default

\* doc.get("TypeCode") of a record without the key: None, equal to no code.
NoneCode == -1

\* Mutant: a test for None in place of the test for a false value.
Falsy_NoneOnly(value) == value = None

\* `not value` of a string or None
Falsy(value) == value = None \/ value = <<>>

\* Mutant: pdf as the extension of every code but 3.
determine_ext_DefaultPdf(type_code) == IF type_code = 3 THEN "docx" ELSE "pdf"

\* utils.py
determine_ext(type_code) ==
    IF type_code = 4 \/ type_code = 2 THEN "pdf"
    ELSE IF type_code = 3 THEN "docx"
    ELSE "txt"

\* process_download.py: extension_map.get(file_type, "txt")
get_file_extension(file_type) ==
    LET extension_map == (2 :> "pdf") @@ (4 :> "pdf") @@ (3 :> "docx")
    IN  IF file_type \in DOMAIN extension_map THEN extension_map[file_type]
        ELSE "txt"

ExtensionOf(im, type_code) ==
    IF im = "scripts" THEN get_file_extension(type_code)
    ELSE determine_ext(type_code)

ExtText(ext) ==
    CASE ext = "pdf" -> <<"p", "d", "f">>
      [] ext = "docx" -> <<"d", "o", "c", "x">>
      [] OTHER -> <<"t", "x", "t">>

\* The query of /Home/Download, parameter by parameter.
build_download_url(path, file_name, type_code) ==
    [path |-> path, fileName |-> file_name, type |-> type_code]

\* The type code handed to build_download_url: utils.py passes type_code=4,
\* process_download.py the record's own.
UrlTypeCode(im, type_code) == IF im = "utils" THEN 4 ELSE type_code

ChunkSize == 8192

\* What one GET of a document can meet: a 2xx response streamed whole (one
\* chunk of it), a non-2xx status (raise_for_status, also after the retries
\* are used up), an error of session.get itself, or an error while the body
\* is streamed to the open file.
DownloadOutcomes ==
    {[kind |-> "ok", size |-> ChunkSize]}
    \cup {[kind |-> k, size |-> 0] : k \in {"http_error", "network_error"}}
    \cup {[kind |-> "stream_error", size |-> ChunkSize]}

\* Mutant: a failed download reports the bytes written so far.
download_file_PartialSize(outcome) ==
    [success |-> outcome.kind = "ok", size |-> outcome.size,
     opened |-> outcome.kind \in {"ok", "stream_error"}]

\* download_file: (success, size), and whether open(dest_path, "wb") ran.
download_file(outcome) ==
    IF outcome.kind = "ok"
    THEN [success |-> TRUE, size |-> outcome.size, opened |-> TRUE]
    ELSE [success |-> FALSE, size |-> 0, opened |-> outcome.kind = "stream_error"]

\* Mutant: another word for a failed download.
StatusOf_Error(success) == IF success THEN "success" ELSE "error"

\* "success" if success else "failed"
StatusOf(success) == IF success THEN "success" ELSE "failed"

\* The file left on disk by one call of download_file: nothing removes a
\* file that was opened.
FilesAfter(fs, filepath, dl) == IF dl.opened THEN fs \cup {filepath} ELSE fs

\* Mutant: the file name without the sequence number.
SafeFilename_NoSequence(im, case_number, date, n, ext) ==
    sanitize_filename(case_number \o <<"_">> \o date)

\* f"{case}_{date}_{n:04d}" sanitized (n:03d and ".{doc_type}" in scraper.py)
SafeFilename(im, case_number, date, n, ext) ==
    IF im = "scraper"
    THEN sanitize_filename(case_number \o <<"_">> \o date \o <<"_">>
                           \o ZeroPad(Str(n), 3) \o <<".">> \o ExtText(ext))
    ELSE sanitize_filename(case_number \o <<"_">> \o date \o <<"_">>
                           \o ZeroPad(Str(n), 4))

\* os.path.join(dir, ...): the name of the file inside the output directory.
FilePath(im, filename, ext) ==
    IF im = "scraper" THEN filename ELSE filename \o <<".">> \o ExtText(ext)

\* f"case_{n}"
Placeholder(n) == <<"c", "a", "s", "e", "_">> \o Str(n)

\* Why the loop leaves a raw record of the search API out ("" when it does
\* not): parse_ms_date raised (caught by the loop's except), no path or file
\* name, an extension other than pdf and docx; in the order of the code.
SkipReason(im, doc) ==
    IF ParseMsDateRaises(im, Get(doc, "VerdictDt", None)) THEN "exception"
    ELSE IF Falsy(Get(doc, "PathForWeb", None)) \/ Falsy(Get(doc, "FileName", None))
    THEN "missing"
    ELSE IF ExtensionOf(im, Get(doc, "TypeCode", NoneCode)) \notin {"pdf", "docx"}
    THEN "unsupported"
    ELSE ""

\* One pass of the loop body up to the download, for a raw record of the
\* search API (utils.py 180-217, process_download.py 96-118).
ResolveRecord(im, doc, n) ==
    LET case_number == Get(doc, "CaseNum", Placeholder(n))
        date == parse_ms_date(im, Get(doc, "VerdictDt", None))
        path == Get(doc, "PathForWeb", None)
        file_name == Get(doc, "FileName", None)
        type_code == Get(doc, "TypeCode", NoneCode)
        ext == ExtensionOf(im, type_code)
        filename == SafeFilename(im, case_number, date.value, n, ext)
    IN  [case_number |-> case_number,
         decision_date |-> date.value,
         document_type |-> ext,
         filename |-> filename,
         filepath |-> FilePath(im, filename, ext),
         download_url |-> build_download_url(path, file_name,
                                             UrlTypeCode(im, type_code))]

\* The date given on the command line of scraper.py.
SearchDate == <<"2", "0", "2", "2", "-", "0", "4", "-", "1", "5">>

\* Why the loop of scrape_decisions leaves a result item out: an item
\* without one of the four text nodes raises in get_text (caught by the
\* loop's except), an item without a pdf or doc link is skipped.
SkipReasonItem(item) ==
    IF "res_link" \notin DOMAIN item \/ "res_text" \notin DOMAIN item
    THEN "exception"
    ELSE IF "pdf_link" \notin DOMAIN item /\ "doc_link" \notin DOMAIN item
    THEN "missing"
    ELSE ""

\* The loop body of scrape_decisions up to the download (scraper.py 129-153).
ResolveItem(item, n) ==
    LET case_number == Get(item, "res_link", None)
        ext == IF "pdf_link" \in DOMAIN item THEN "pdf" ELSE "docx"
        filename == SafeFilename("scraper", case_number, SearchDate, n, ext)
    IN  [case_number |-> case_number,
         decision_date |-> Get(item, "res_text", None),
         document_type |-> ext,
         filename |-> filename,
         filepath |-> FilePath("scraper", filename, ext),
         download_url |-> IF "pdf_link" \in DOMAIN item THEN item["pdf_link"]
                          ELSE Get(item, "doc_link", None)]

\* The ledger entry appended after the download.
Entry(r, dl) ==
    [case_number |-> r.case_number,
     decision_date |-> r.decision_date,
     document_type |-> r.document_type,
     file_size_bytes |-> dl.size,
     filename |-> r.filename,
     download_url |-> r.download_url,
     download_status |-> StatusOf(dl.success)]

\* sum(d["download_status"] == status for d in docs)
CountStatus(docs, status) ==
    Cardinality({k \in 1..Len(docs) : docs[k].download_status = status})

\* The lines of download_log.txt
LogLines(docs) ==
    [k \in 1..Len(docs) |-> <<docs[k].filename, " - ", docs[k].download_status>>]

\* The content of metadata.json
MetadataOf(docs) ==
    [total_documents |-> Len(docs),
     successful_downloads |-> CountStatus(docs, "success"),
     failed_downloads |-> CountStatus(docs, "failed"),
     documents |-> docs]

----------------------------------------------------------------------------
(* The inputs of a run *)

CaseA == <<"A", "/", "1">>
CaseB == <<"a", "1">>
\* /Date(86400000)/, 1970-01-02
GoodMarker == DatePrefix \o <<"8", "6", "4", "0", "0", "0", "0", "0", ")", "/">>
BadMarker == <<"x">>
PathP == <<"p">>
FileF == <<"f">>

\* A record of the search API with the given values; None (NoneCode for the
\* type code) leaves the key out.
Rec(c, d, p, f, t) ==
    LET all == [CaseNum |-> c, VerdictDt |-> d, PathForWeb |-> p, FileName |-> f,
                TypeCode |-> t]
        keys == {k \in DOMAIN all :
                    IF k = "TypeCode" THEN t # NoneCode ELSE all[k] # None}
    IN  [k \in keys |-> all[k]]

RawRecords ==
    { Rec(CaseA, GoodMarker, PathP, FileF, 4),
      Rec(CaseA, None, PathP, FileF, 4),
      Rec(CaseB, BadMarker, PathP, FileF, 3),
      Rec(None, <<>>, PathP, FileF, 2),
      Rec(CaseA, None, PathP, FileF, 7),
      Rec(CaseA, None, PathP, FileF, NoneCode),
      Rec(CaseA, GoodMarker, None, FileF, 4),
      Rec(CaseA, None, <<>>, FileF, 4),
      Rec(CaseA, None, PathP, None, 3),
      Rec(CaseA, None, PathP, <<>>, 4) }

\* A result item of the HTML listing: the case number (res_link), the other
\* text nodes (res_text) and the links to the file.
Item(c, text, pdf, doc) ==
    LET all == [ res_link |-> c, res_text |-> text, pdf_link |-> pdf, doc_link |-> doc ]
    IN  [k \in {k \in DOMAIN all : all[k] # None} |-> all[k]]

Href == <<"u">>

ResultItems ==
    { Item(CaseA, SearchDate, Href, None),
      Item(CaseA, SearchDate, None, Href),
      Item(CaseB, SearchDate, Href, Href),
      Item(CaseA, SearchDate, None, None),
      Item(None, SearchDate, Href, None),
      Item(CaseA, None, None, Href) }

SeqsUpTo(S, n) == UNION {[1..k -> S] : k \in 0..n}

----------------------------------------------------------------------------
(* The run *)

Idle ==
    /\ documents = <<>>
    /\ idx = 1
    /\ sequential = 1
    /\ document_list = <<>>
    /\ attempts = <<>>
    /\ files = {}
    /\ metadata = <<>>
    /\ download_log = <<>>
    /\ tally = <<>>
    /\ search_outcome = ""
    /\ exc = ""

Init ==
    /\ impl \in {"scraper", "utils", "scripts"}
    /\ pc = "start"
    /\ Idle
    /\ arg = <<>>
    /\ ret = <<>>
    /\ raised = FALSE

SearchOutcomes ==
    {"network_error", "http_error", "invalid_json", "json_not_object",
     "json_no_data", "json_data"}

\* search_documents: [raised, value].  A RequestException (connection error,
\* timeout, non-2xx status, a body that is not JSON) gives []; results.get
\* raises AttributeError when the JSON value is not an object.
search_documents(outcome, data) ==
    [raised |-> outcome = "json_not_object",
     value |-> IF outcome = "json_data" THEN data ELSE <<>>]

\* The caller of search_documents, process_documents and save_metadata: no
\* documents, no ledger.
MainAfterSearch(docs) == IF docs = <<>> THEN "done" ELSE "loop"

SearchDocuments ==
    /\ impl = "scripts"
    /\ pc = "start"
    /\ \E outcome \in SearchOutcomes, data \in SeqsUpTo(RawRecords, MaxDocs) :
          LET r == search_documents(outcome, data)
          IN  /\ outcome # "json_data" => data = <<>>
              /\ search_outcome' = outcome
              /\ documents' = r.value
              /\ exc' = IF r.raised THEN "AttributeError" ELSE ""
              /\ pc' = IF r.raised THEN "raised" ELSE MainAfterSearch(r.value)
    /\ UNCHANGED <<impl, idx, sequential, document_list, attempts, files,
                   metadata, download_log, tally, fn_vars>>

ScrapeOutcomes == {"network_error", "http_error", "no_container", "no_items", "items"}

\* scrape_decisions up to the loop: it returns on a RequestException, on a
\* page without the results container and on an empty listing.
ScrapeSearch ==
    /\ impl = "scraper"
    /\ pc = "start"
    /\ \E outcome \in ScrapeOutcomes, items \in SeqsUpTo(ResultItems, MaxDocs) :
          /\ (outcome = "items") = (items # <<>>)
          /\ search_outcome' = outcome
          /\ documents' = items
          /\ pc' = IF outcome = "items" THEN "loop" ELSE "done"
    /\ UNCHANGED <<impl, idx, sequential, document_list, attempts, files,
                   metadata, download_log, tally, exc, fn_vars>>

\* utils.process_documents is called with a list of raw records.
CallProcessDocuments ==
    /\ impl = "utils"
    /\ pc = "start"
    /\ \E data \in SeqsUpTo(RawRecords, MaxDocs) :
          /\ documents' = data
          /\ search_outcome' = "json_data"
    /\ pc' = "loop"
    /\ UNCHANGED <<impl, idx, sequential, document_list, attempts, files,
                   metadata, download_log, tally, exc, fn_vars>>

\* The number used in the file name: enumerate's index in
\* process_download.py, the counter `sequential` elsewhere.
SequenceNumber == IF impl = "scripts" THEN idx ELSE sequential

\* The rest of the loop body for a resolved record r: the download, the
\* ledger entry, the counter.
DownloadAndRecord(r) ==
    \E outcome \in DownloadOutcomes :
        LET dl == download_file(outcome)
        IN  /\ attempts' = Append(attempts, [raw |-> idx, ok |-> outcome.kind = "ok"])
            /\ files' = FilesAfter(files, r.filepath, dl)
            /\ document_list' = Append(document_list, Entry(r, dl))
            /\ sequential' = sequential + 1

Skip == UNCHANGED <<attempts, files, document_list, sequential>>

\* One pass of the loop of utils.process_documents.
UtilsProcessDocument ==
    /\ impl = "utils"
    /\ pc = "loop"
    /\ idx <= Len(documents)
    /\ IF SkipReason(impl, documents[idx]) # "" THEN Skip
       ELSE DownloadAndRecord(ResolveRecord(impl, documents[idx], SequenceNumber))
    /\ idx' = idx + 1
    /\ UNCHANGED <<impl, pc, documents, metadata, download_log, tally,
                   search_outcome, exc, fn_vars>>

\* One pass of the loop of process_download.process_documents:
\* _process_single_document, its result appended when it is not None.
ProcessSingleDocument ==
    /\ impl = "scripts"
    /\ pc = "loop"
    /\ idx <= Len(documents)
    /\ IF SkipReason(impl, documents[idx]) # "" THEN Skip
       ELSE DownloadAndRecord(ResolveRecord(impl, documents[idx], SequenceNumber))
    /\ idx' = idx + 1
    /\ UNCHANGED <<impl, pc, documents, metadata, download_log, tally,
                   search_outcome, exc, fn_vars>>

\* One pass of the loop of scrape_decisions.
ScrapeItem ==
    /\ impl = "scraper"
    /\ pc = "loop"
    /\ idx <= Len(documents)
    /\ IF SkipReasonItem(documents[idx]) # "" THEN Skip
       ELSE DownloadAndRecord(ResolveItem(documents[idx], SequenceNumber))
    /\ idx' = idx + 1
    /\ UNCHANGED <<impl, pc, documents, metadata, download_log, tally,
                   search_outcome, exc, fn_vars>>

\* process_documents returns the ledger: utils.py to its caller,
\* process_download.py to the caller that hands it to save_metadata.
ProcessDocumentsReturn ==
    /\ impl \in {"utils", "scripts"}
    /\ pc = "loop"
    /\ idx > Len(documents)
    /\ pc' = IF impl = "scripts" THEN "save" ELSE "done"
    /\ UNCHANGED <<impl, documents, idx, sequential, document_list, attempts,
                   files, metadata, download_log, tally, search_outcome, exc,
                   fn_vars>>

\* save_metadata: the two counts, then the metadata dictionary, whose
\* download_timestamp is datetime.now(): with datetime the module this raises
\* AttributeError before either file is opened.
SaveMetadata ==
    /\ impl = "scripts"
    /\ pc = "save"
    /\ tally' = <<[successful_downloads |-> CountStatus(document_list, "success"),
                   failed_downloads |-> CountStatus(document_list, "failed")]>>
    /\ IF DatetimeIsClass(impl)
       THEN /\ metadata' = <<MetadataOf(document_list)>>
            /\ download_log' = <<LogLines(document_list)>>
            /\ pc' = "done"
            /\ exc' = exc
       ELSE /\ pc' = "raised"
            /\ exc' = "AttributeError"
            /\ UNCHANGED <<metadata, download_log>>
    /\ UNCHANGED <<impl, documents, idx, sequential, document_list, attempts,
                   files, search_outcome, fn_vars>>

\* The end of scrape_decisions: metadata.json, then download_log.txt.
ScrapeSave ==
    /\ impl = "scraper"
    /\ pc = "loop"
    /\ idx > Len(documents)
    /\ metadata' = <<MetadataOf(document_list)>>
    /\ download_log' = <<LogLines(document_list)>>
    /\ pc' = "done"
    /\ UNCHANGED <<impl, documents, idx, sequential, document_list, attempts,
                   files, tally, search_outcome, exc, fn_vars>>

Next ==
    \/ SearchDocuments
    \/ ScrapeSearch
    \/ CallProcessDocuments
    \/ UtilsProcessDocument
    \/ ProcessSingleDocument
    \/ ScrapeItem
    \/ ProcessDocumentsReturn
    \/ SaveMetadata
    \/ ScrapeSave

Spec == Init /\ [][Next]_vars

----------------------------------------------------------------------------
(* Runs of one function on its own: sanitize_filename, parse_ms_date *)

SanAlphabet ==
    {"A", "a", "1", "_", "-", " ", "\t", "/", "U+0130", "U+0307", "U+1D400"}

SanInputs == UNION {[1..n -> SanAlphabet] : n \in 0..MaxLen}

InitSanitize ==
    /\ impl = "utils"
    /\ pc = "sanitize"
    /\ Idle
    /\ arg \in SanInputs
    /\ ret = <<>>
    /\ raised = FALSE

\* sanitize_filename applied to the argument, then to its own result.
SanitizeCall ==
    /\ pc = "sanitize"
    /\ Len(ret) < MaxApply
    /\ ret' = Append(ret, sanitize_filename(IF ret = <<>> THEN arg ELSE ret[Len(ret)]))
    /\ UNCHANGED <<impl, pipeline_vars, arg, raised>>

NextSanitize == SanitizeCall

SpecSanitize == InitSanitize /\ [][NextSanitize]_vars

\* The marker of the timestamp secs * 1000 + ms.
MarkerOf(secs, ms) ==
    DatePrefix
        \o (IF secs = 0 THEN Str(ms) ELSE Str(secs) \o ZeroPad(Str(ms), 3))
        \o <<")", "/">>

\* Days since 1970-01-01: every DayStep-th day, the ends of February in a
\* common, a leap and a century leap year, and 2022-04-15.
SampleDays ==
    {k * DayStep : k \in 0..MaxDateSteps} \cup {58, 59, 789, 790, 11016, 11017, 19097}

SampleSeconds == {d * 86400 + o : d \in SampleDays, o \in {0, 86399}}

\* text: the argument; valid: whether it holds the pattern; secs: the whole
\* seconds of the timestamp it was written from.
DateArgs ==
    {[text |-> MarkerOf(s, 0), valid |-> TRUE, secs |-> s] :
        s \in SampleSeconds \cup {1650000000}}
    \cup {[text |-> <<"x">> \o MarkerOf(86400, 999) \o <<"x">>, valid |-> TRUE,
           secs |-> 86400]}
    \cup {[text |-> t, valid |-> FALSE, secs |-> 0] :
            t \in {None, <<>>, <<"x">>, DatePrefix \o <<")", "/">>,
                   DatePrefix \o <<"1", "2">>,
                   <<"D", "a", "t", "e", "(", "5", ")", "/">>,
                   DatePrefix \o <<"1", "x", ")", "/">>}}

InitDate ==
    /\ impl \in {"utils", "scripts"}
    /\ pc = "date"
    /\ Idle
    /\ arg \in DateArgs
    /\ ret = <<>>
    /\ raised = FALSE

ParseMsDateCall ==
    /\ pc = "date"
    /\ ret = <<>>
    /\ ~raised
    /\ LET r == parse_ms_date(impl, arg.text)
       IN  /\ raised' = r.raised
           /\ ret' = IF r.raised THEN <<>> ELSE <<r.value>>
    /\ UNCHANGED <<impl, pipeline_vars, arg>>

NextDate == ParseMsDateCall

SpecDate == InitDate /\ [][NextDate]_vars

----------------------------------------------------------------------------
(* The calendar, stated independently of utcfromtimestamp *)

LeapYearsBefore(y) == ((y - 1) \div 4) - ((y - 1) \div 100) + ((y - 1) \div 400)

DaysBeforeMonth(y, m) ==
    <<0, 31, 59, 90, 120, 151, 181, 212, 243, 273, 304, 334>>[m]
        + (IF m > 2 /\ IsLeap(y) THEN 1 ELSE 0)

DaysFromCivil(y, m, d) ==
    365 * (y - 1970) + (LeapYearsBefore(y) - LeapYearsBefore(1970))
        + DaysBeforeMonth(y, m) + (d - 1)

\* s is YYYY-MM-DD and names the calendar day `days` days after 1970-01-01.
IsDateOfDay(s, days) ==
    /\ Len(s) = 10
    /\ s[5] = "-"
    /\ s[8] = "-"
    /\ \A i \in {1, 2, 3, 4, 6, 7, 9, 10} : s[i] \in DigitChars
    /\ LET y == ToInt(SubSeq(s, 1, 4))
           m == ToInt(SubSeq(s, 6, 7))
           d == ToInt(SubSeq(s, 9, 10))
       IN  /\ m \in 1..12
           /\ d \in 1..DaysInMonth(y, m)
           /\ DaysFromCivil(y, m, d) = days

----------------------------------------------------------------------------
(* Claims on the functions *)

\* C7: date decoding returns the UTC calendar date YYYY-MM-DD of the
\* timestamp in every marker /Date(<epoch-milliseconds>)/, and the empty
\* string, without raising, for every marker that is absent, empty or
\* without the pattern.
C7_ParseMsDateDecodes ==
    (pc = "date" /\ (ret # <<>> \/ raised)) =>
        /\ ~raised
        /\ IF arg.valid THEN IsDateOfDay(ret[1], arg.secs \div 86400)
           ELSE ret[1] = <<>>

\* The same of utils.py alone, where datetime names the class.
ParseMsDateDecodesInUtils ==
    (pc = "date" /\ impl = "utils" /\ (ret # <<>> \/ raised)) =>
        /\ ~raised
        /\ IF arg.valid THEN IsDateOfDay(ret[1], arg.secs \div 86400)
           ELSE ret[1] = <<>>

DecodedExample ==
    pc = "date" /\ impl = "utils" /\ arg.text = MarkerOf(1650000000, 0)
        /\ ret = << <<"2", "0", "2", "2", "-", "0", "4", "-", "1", "5">> >>

\* C8: sanitize_filename is idempotent, and its result holds only word
\* characters and hyphens, none of them upper case.
C8_SanitizeIdempotent ==
    (pc = "sanitize" /\ ret # <<>>) =>
        /\ \A k \in 1..Len(ret) : ret[k] = ret[1]
        /\ \A i \in 1..Len(ret[1]) :
              /\ IsWord(ret[1][i]) \/ ret[1][i] = "-"
              /\ ~IsUpper(ret[1][i])

\* Idempotence and the character classes on the strings without U+0130 and
\* U+1D400.
SanitizeIdempotentOnPlainText ==
    (pc = "sanitize" /\ ret # <<>>
        /\ \A i \in 1..Len(arg) : arg[i] \notin {"U+0130", "U+1D400"}) =>
        /\ \A k \in 1..Len(ret) : ret[k] = ret[1]
        /\ \A i \in 1..Len(ret[1]) :
              /\ IsWord(ret[1][i]) \/ ret[1][i] = "-"
              /\ ~IsUpper(ret[1][i])

----------------------------------------------------------------------------
(* Claims on the run *)

InRun == pc \in {"start", "loop", "save", "done", "raised"}

\* The raw records the loop has passed.
Handled == 1..(idx - 1)

LoopOver == pc \in {"save", "done", "raised"} /\ documents # <<>>

Attempted(i) == \E k \in 1..Len(attempts) : attempts[k].raw = i

TypeCodeOf(doc) == Get(doc, "TypeCode", NoneCode)

Unsupported(doc) == TypeCodeOf(doc) \notin {2, 3, 4}

MissingLocator(doc) ==
    \/ "PathForWeb" \notin DOMAIN doc
    \/ doc["PathForWeb"] = <<>>
    \/ "FileName" \notin DOMAIN doc
    \/ doc["FileName"] = <<>>

JsonImpl == impl \in {"utils", "scripts"}

\* What the loop did with raw record i.
SkipOf(i) ==
    IF impl = "scraper" THEN SkipReasonItem(documents[i])
    ELSE SkipReason(impl, documents[i])

\* Every ledger entry stands for one download, in the order of the downloads.
OneEntryPerAttempt ==
    /\ Len(document_list) = Len(attempts)
    /\ \A j, k \in 1..Len(attempts) : j < k => attempts[j].raw < attempts[k].raw
    /\ \A k \in 1..Len(attempts) : attempts[k].raw \in Handled

\* The ledger, and every count written or computed, hold at most n documents.
CountsAtMost(n) ==
    /\ Len(document_list) <= n
    /\ metadata # <<>> =>
          /\ metadata[1].total_documents <= n
          /\ metadata[1].successful_downloads + metadata[1].failed_downloads <= n
    /\ tally # <<>> =>
          tally[1].successful_downloads + tally[1].failed_downloads <= n

\* C1: in every persisted metadata, successful_downloads + failed_downloads
\* = total_documents = the number of ledger entries, and every entry's
\* download_status is "success" or "failed"; the counts save_metadata
\* computes from the ledger add up to its length as well.
C1_CountsAddUp ==
    InRun =>
        /\ \A k \in 1..Len(document_list) :
              document_list[k].download_status \in {"success", "failed"}
        /\ metadata # <<>> =>
              /\ metadata[1].documents = document_list
              /\ metadata[1].total_documents = Len(document_list)
              /\ metadata[1].successful_downloads + metadata[1].failed_downloads
                    = metadata[1].total_documents
        /\ tally # <<>> =>
              tally[1].successful_downloads + tally[1].failed_downloads
                  = Len(document_list)

C1_Witness ==
    /\ impl = "scraper"
    /\ metadata # <<>>
    /\ metadata[1].total_documents = 2
    /\ metadata[1].successful_downloads = 1
    /\ metadata[1].failed_downloads = 1
    /\ Len(documents) = 3

C3_MissingLocatorExcluded ==
    (InRun /\ JsonImpl) =>
        /\ OneEntryPerAttempt
        /\ \A i \in 1..Len(documents) : MissingLocator(documents[i]) => ~Attempted(i)
        /\ CountsAtMost(Cardinality({i \in Handled : ~MissingLocator(documents[i])}))
        /\ \A i \in Handled :
              (~MissingLocator(documents[i]) /\ ~Unsupported(documents[i])
                  /\ SkipOf(i) # "exception") => Attempted(i)
        /\ LoopOver => idx = Len(documents) + 1

C3_Witness ==
    /\ JsonImpl
    /\ LoopOver
    /\ Len(documents) = 3
    /\ "PathForWeb" \in DOMAIN documents[2]
    /\ documents[2]["PathForWeb"] = <<>>
    /\ Len(attempts) = 2
    /\ attempts[1].raw = 1
    /\ attempts[2].raw = 3
    /\ Len(document_list) = 2

\* The destination path of a ledger entry.
PathOfEntry(e) == FilePath(impl, e.filename, e.document_type)

\* C4: a failed download (non-2xx status, network error, error while
\* writing) is recorded as "failed" with file_size_bytes 0 and does not end
\* the loop: every raw record is passed, and every resolved record has
\* exactly one download attempt and one ledger entry.
C4_FailureDoesNotAbort ==
    InRun =>
        /\ OneEntryPerAttempt
        /\ \A k \in 1..Len(attempts) :
              IF attempts[k].ok
              THEN document_list[k].download_status = "success"
              ELSE /\ document_list[k].download_status = "failed"
                   /\ document_list[k].file_size_bytes = 0
        /\ \A i \in Handled : (SkipOf(i) = "") <=> Attempted(i)
        /\ LoopOver => idx = Len(documents) + 1
        /\ (attempts # <<>> /\ exc # "") => pc = "raised" /\ tally # <<>>

C4_Witness ==
    /\ LoopOver
    /\ Len(attempts) = 3
    /\ ~attempts[1].ok
    /\ ~attempts[2].ok
    /\ attempts[3].ok
    /\ PathOfEntry(document_list[1]) \notin files
    /\ PathOfEntry(document_list[2]) \in files
    /\ document_list[1].download_status = "failed"
    /\ document_list[3].download_status = "success"

\* C5: after a download attempt a file exists at the destination path only
\* if the attempt is recorded as "success"; a failed download leaves no
\* partial file.
C5_FileOnlyOnSuccess ==
    InRun =>
        \A k \in 1..Len(document_list) :
            PathOfEntry(document_list[k]) \in files
                => document_list[k].download_status = "success"

\* The part of it that the code keeps: the file of a successful download
\* exists.
FileExistsOnSuccess ==
    InRun =>
        \A k \in 1..Len(document_list) :
            document_list[k].download_status = "success"
                => PathOfEntry(document_list[k]) \in files

SearchFailed ==
    \/ impl = "scripts" /\ search_outcome \in {"network_error", "http_error",
                                               "invalid_json"}
    \/ impl = "scraper" /\ search_outcome \in {"network_error", "http_error"}

NoDataKey == impl = "scripts" /\ search_outcome \in {"json_no_data", "json_not_object"}

\* C6: a failed search call (connection error, timeout, non-2xx status,
\* body that is not JSON) gives an empty result without raising, no download
\* and no metadata.json or download_log.txt; valid JSON without a top-level
\* "data" key gives the empty list, not an error.
C6_SearchFailureIsEmpty ==
    (InRun /\ (SearchFailed \/ NoDataKey)) =>
        /\ exc = ""
        /\ pc = "done"
        /\ documents = <<>>
        /\ attempts = <<>>
        /\ document_list = <<>>
        /\ metadata = <<>>
        /\ download_log = <<>>

\* The same without the JSON values that are not objects.
SearchFailureIsEmptyForObjects ==
    (InRun /\ (SearchFailed \/ (NoDataKey /\ search_outcome # "json_not_object"))) =>
        /\ exc = ""
        /\ pc = "done"
        /\ documents = <<>>
        /\ attempts = <<>>
        /\ document_list = <<>>
        /\ metadata = <<>>
        /\ download_log = <<>>

\* C9: the sanitized filenames of the ledger are pairwise distinct.
C9_FilenamesDistinct ==
    InRun =>
        \A j, k \in 1..Len(document_list) :
            j # k => document_list[j].filename # document_list[k].filename

\* Two entries with the same case number and date, one with the placeholder.
C9_Witness ==
    /\ Len(document_list) = 3
    /\ document_list[1].case_number = document_list[2].case_number
    /\ document_list[1].decision_date = document_list[2].decision_date
    /\ document_list[1].decision_date = <<>>
    /\ document_list[3].case_number = Placeholder(3)

\* Entry e was made from raw record doc.
MadeFrom(e, doc) ==
    IF impl = "scraper"
    THEN /\ e.case_number = doc["res_link"]
         /\ e.download_url \in {Get(doc, "pdf_link", None), Get(doc, "doc_link", None)}
    ELSE /\ e.download_url.path = doc["PathForWeb"]
         /\ e.download_url.fileName = doc["FileName"]
         /\ "CaseNum" \in DOMAIN doc => e.case_number = doc["CaseNum"]

\* C10: the ledger is a subsequence of the raw results in their order, and
\* download_log.txt holds one "<filename> - <status>" line per ledger
\* document, in the same order, and no other line.
C10_LedgerAndLogInOrder ==
    InRun =>
        /\ OneEntryPerAttempt
        /\ \A k \in 1..Len(document_list) :
              MadeFrom(document_list[k], documents[attempts[k].raw])
        /\ download_log # <<>> => download_log[1] = LogLines(document_list)
        /\ (impl \in {"scripts", "scraper"} /\ pc \in {"done", "raised"}
                /\ document_list # <<>>)
              => download_log = <<LogLines(document_list)>>

\* The part of it that holds: the order of the ledger, and the lines of
\* every download_log.txt that is written.
LedgerInOrderAndLogWhenWritten ==
    InRun =>
        /\ OneEntryPerAttempt
        /\ \A k \in 1..Len(document_list) :
              MadeFrom(document_list[k], documents[attempts[k].raw])
        /\ download_log # <<>> => download_log[1] = LogLines(document_list)

----------------------------------------------------------------------------
\* Ledger entry e, made from raw record doc, carries sequence number n: its
\* file name ends in "_" and n in four digits, and the case number of a
\* record without one is the placeholder of n.
CarriesNumber(e, doc, n) ==
    LET tail == <<"_">> \o ZeroPad(Str(n), 4)
        len == Len(e.filename)
    IN  /\ len >= Len(tail)
        /\ SubSeq(e.filename, len - Len(tail) + 1, len) = tail
        /\ "CaseNum" \notin DOMAIN doc => e.case_number = Placeholder(n)

\* C11: the k-th document of the ledger carries sequence number k, in its
\* file name and in the placeholder of a missing case number, however many
\* raw records were skipped before it.
C11_SequenceDense ==
    (JsonImpl /\ InRun) =>
        \A k \in 1..Len(document_list) :
            CarriesNumber(document_list[k], documents[attempts[k].raw], k)

\* The part of it that holds: the counter of utils.process_documents.
SequenceDenseInUtils ==
    (impl = "utils" /\ InRun) =>
        \A k \in 1..Len(document_list) :
            CarriesNumber(document_list[k], documents[attempts[k].raw], k)

\* What process_download.process_documents does instead: the number is the
\* position of the record in the raw list.
SequenceIsRawPositionInScripts ==
    (impl = "scripts" /\ InRun) =>
        \A k \in 1..Len(document_list) :
            CarriesNumber(document_list[k], documents[attempts[k].raw],
                          attempts[k].raw)

----------------------------------------------------------------------------
\* The download URL of entry e names the storage path and the file name of
\* raw record doc.
UrlLocatesRecord(e, doc) ==
    /\ e.download_url.path = doc["PathForWeb"]
    /\ e.download_url.fileName = doc["FileName"]

\* The download URL of entry e carries the type code of raw record doc, the
\* code its extension was derived from.
UrlCarriesOwnType(e, doc) ==
    /\ e.download_url.type = TypeCodeOf(doc)
    /\ e.document_type = ExtensionOf(impl, e.download_url.type)

\* C12: the "type" parameter of the download URL of every processed document
\* is the record's own type code, the one its extension was derived from,
\* and "path" and "fileName" are the record's storage path and file name.
C12_UrlCarriesOwnType ==
    (JsonImpl /\ InRun) =>
        \A k \in 1..Len(document_list) :
            /\ UrlLocatesRecord(document_list[k], documents[attempts[k].raw])
            /\ UrlCarriesOwnType(document_list[k], documents[attempts[k].raw])

\* The part of it that holds: path and fileName everywhere, the type in
\* process_download.py.
UrlCarriesOwnTypeInScripts ==
    (JsonImpl /\ InRun) =>
        \A k \in 1..Len(document_list) :
            /\ UrlLocatesRecord(document_list[k], documents[attempts[k].raw])
            /\ impl = "scripts" =>
                  UrlCarriesOwnType(document_list[k], documents[attempts[k].raw])

\* What utils.process_documents does instead: the type is 4 for every record.
UrlTypeIsFourInUtils ==
    (impl = "utils" /\ InRun) =>
        \A k \in 1..Len(document_list) : document_list[k].download_url.type = 4

----------------------------------------------------------------------------
\* The search call of process_download's pipeline has returned a value.
SearchReturned ==
    impl = "scripts" /\ search_outcome \in SearchOutcomes \ {"json_not_object"}

\* process_documents has returned a ledger that accounts for every raw
\* record: a skipped record has no entry, any other has one entry whose
\* status tells how its download went.
EveryRecordAccountedFor ==
    /\ OneEntryPerAttempt
    /\ \A i \in 1..Len(documents) :
          IF SkipReason(impl, documents[i]) # "" THEN ~Attempted(i)
          ELSE \E k \in 1..Len(attempts) :
                  /\ attempts[k].raw = i
                  /\ document_list[k].download_status
                        = IF attempts[k].ok THEN "success" ELSE "failed"

\* C13: once the search call has returned, nothing is raised to the caller:
\* process_documents returns normally with every failure turned into a
\* "failed" entry or a skipped record, and save_metadata returns normally
\* with metadata.json and download_log.txt written.
C13_NoFailurePropagates ==
    SearchReturned =>
        /\ pc # "raised"
        /\ exc = ""
        /\ pc = "save" => EveryRecordAccountedFor
        /\ (pc = "done" /\ documents # <<>>) =>
              /\ metadata = <<MetadataOf(document_list)>>
              /\ download_log = <<LogLines(document_list)>>

\* The part of it that holds: process_documents returns normally, in
\* process_download.py and in utils.py, whatever the records and the
\* download outcomes.
ProcessDocumentsReturnsNormally ==
    (JsonImpl /\ LoopOver) => EveryRecordAccountedFor

\* What save_metadata does instead: it raises before either file is written.
SaveMetadataRaises ==
    (SearchReturned /\ pc \in {"done", "raised"} /\ documents # <<>>) =>
        /\ pc = "raised"
        /\ exc = "AttributeError"
        /\ metadata = <<>>
        /\ download_log = <<>>

====
